---- MODULE Spec2Model ----
(***************************************************************************)
(* Shape-level model of src/models/sngan.py: the SNGAN generator and       *)
(* projection discriminator.  A tensor is represented by its shape (a      *)
(* sequence of dimensions); an exception raised by the tensor library is   *)
(* the shape ERR.  Each line of the two forward methods is one action.     *)
(* Besides shapes the model keeps the registered parameters (version       *)
(* numbers), the buffers that a forward pass updates (batch-norm running   *)
(* statistics, spectral-norm power-iteration vectors), and one             *)
(* representative element value of the generator output in fixed point.    *)
(***************************************************************************)
EXTENDS Integers, Sequences, FiniteSets, TLC

\* ---------------------------------------------------------------- bounds
MaxBatch == 3      \* batch sizes 1..MaxBatch
MaxCh    == 2      \* gen_ch, disc_ch in 1..MaxCh
MaxNz    == 1      \* nz (latent width) in 1..MaxNz
MaxEmbed == 2      \* dim_embed and the embedding width of a call in 1..MaxEmbed
MaxCalls == 2      \* forward calls in one behaviour
MaxPre   == 6      \* largest pre-activation magnitude fed to tanh (fixed point)
MaxStride == 3     \* stride arguments tried on FirstResBlockDiscriminator

\* ------------------------------------------------------ program constants
channels == 3      \* module-level constant

\* Image side lengths offered to the discriminator: the nominal 64, and
\* sizes that are not 64.
ImgSizes == {32, 64, 65, 128}

ERR  == <<-1>>     \* the forward call raised
None == <<>>       \* Python None passed as the embedding h

VARIABLES netG, netD, pc, z, h, x, out, output_h, blocks, ret, val, mem, counted

vars == <<netG, netD, pc, z, h, x, out, output_h, blocks, ret, val, mem, counted>>

\* ------------------------------------------------------------ tensor library
RECURSIVE Numel(_)
Numel(s) == IF s = <<>> THEN 1 ELSE Head(s) * Numel(Tail(s))

Max2(a, b) == IF a >= b THEN a ELSE b

PadLeft(s, n) == [i \in 1..n |-> IF i <= n - Len(s) THEN 1 ELSE s[i - (n - Len(s))]]

BDim(a, b) == IF a = b THEN a ELSE IF a = 1 THEN b ELSE IF b = 1 THEN a ELSE -1

\* Idiom used below: CHOOSE r \in {F(a) : a \in {e}} : TRUE is F(e) with e
\* evaluated once (a local variable holding the value of e).

\* Shape of an elementwise binary operation (+, *) under broadcasting.
BroadcastShapes(a, b) ==
    IF a = ERR \/ b = ERR THEN ERR
    ELSE LET n == Max2(Len(a), Len(b))
         IN  CHOOSE res \in
                 { IF \E i \in 1..n : r[i] = -1 THEN ERR ELSE r :
                     r \in {[i \in 1..n |-> BDim(PadLeft(a, n)[i], PadLeft(b, n)[i])]} } : TRUE

Broadcast(a, b) ==
    CHOOSE res \in {BroadcastShapes(va, vb) : va \in {a}, vb \in {b}} : TRUE

\* nn.Linear(inF, outF) applied to a tensor of shape s (None raises).
Linear(inF, outF, s) ==
    IF s = ERR \/ s = None THEN ERR
    ELSE IF s[Len(s)] # inF THEN ERR
    ELSE [s EXCEPT ![Len(s)] = outF]

\* tensor.view(-1, tail...)
View(s, tail) ==
    IF s = ERR THEN ERR
    ELSE IF Numel(s) % Numel(tail) # 0 THEN ERR
    ELSE <<Numel(s) \div Numel(tail)>> \o tail

\* z.view(z.size(0), z.size(1))
View2(s) ==
    IF s = ERR \/ Len(s) < 2 THEN ERR
    ELSE IF Numel(s) # s[1] * s[2] THEN ERR
    ELSE <<s[1], s[2]>>

\* nn.Conv2d(inC, outC, k, stride, padding)
Conv2d(inC, outC, k, st, p, s) ==
    IF s = ERR \/ Len(s) # 4 THEN ERR
    ELSE IF s[2] # inC \/ s[3] + 2 * p < k \/ s[4] + 2 * p < k THEN ERR
    ELSE <<s[1], outC, (s[3] + 2 * p - k) \div st + 1, (s[4] + 2 * p - k) \div st + 1>>

\* nn.Upsample(scale_factor)
Upsample(scale, s) ==
    IF s = ERR \/ Len(s) # 4 THEN ERR
    ELSE <<s[1], s[2], s[3] * scale, s[4] * scale>>

\* nn.AvgPool2d(k, stride, padding=0)
AvgPool2d(k, st, s) ==
    IF s = ERR \/ Len(s) # 4 THEN ERR
    ELSE IF s[3] < k \/ s[4] < k THEN ERR
    ELSE <<s[1], s[2], (s[3] - k) \div st + 1, (s[4] - k) \div st + 1>>

\* nn.BatchNorm2d(nf) in training mode (needs more than one value per channel)
BatchNorm2d(nf, s) ==
    IF s = ERR \/ Len(s) # 4 THEN ERR
    ELSE IF s[2] # nf \/ s[1] * s[3] * s[4] <= 1 THEN ERR
    ELSE s

\* Variant: the conditional norm forgets its embedding and only normalises.
ConditionalBatchNorm2dNoEmbed(nf, de, s, y) == BatchNorm2d(nf, s)

\* ConditionalBatchNorm2d(nf, de).forward(x, y):
\*   out = bn(x); gamma, beta = embed(y).view(-1, nf, 1, 1); out + out*gamma + beta
ConditionalBatchNorm2d(nf, de, s, y) ==
    CHOOSE res \in
        { IF o = ERR THEN ERR
          ELSE Broadcast(Broadcast(o, Broadcast(o, gamma)), beta) :
            o     \in {BatchNorm2d(nf, s)},
            gamma \in {View(Linear(de, nf, y), <<nf, 1, 1>>)},
            beta  \in {View(Linear(de, nf, y), <<nf, 1, 1>>)} } : TRUE

\* A layer of a pipeline: op with its constructor arguments; sn marks a
\* layer wrapped by spectral_norm.
Layer(op, a, b, k, st, p, sn) ==
    [op |-> op, a |-> a, b |-> b, k |-> k, st |-> st, p |-> p, sn |-> sn]

Conv(inC, outC, k, st, p)   == Layer("conv", inC, outC, k, st, p, FALSE)
SNConv(inC, outC, k, st, p) == Layer("conv", inC, outC, k, st, p, TRUE)
BN(nf)                      == Layer("bn", nf, nf, 0, 0, 0, FALSE)
CBN(nf, de)                 == Layer("cbn", nf, de, 0, 0, 0, FALSE)
ReLU                        == Layer("relu", 0, 0, 0, 0, 0, FALSE)
Up(scale)                   == Layer("up", 0, 0, scale, 0, 0, FALSE)
Pool(k, st)                 == Layer("pool", 0, 0, k, st, 0, FALSE)
TanhL                       == Layer("tanh", 0, 0, 0, 0, 0, FALSE)

ApplyLayer(l, s, hh) ==
    CASE l.op = "conv" -> Conv2d(l.a, l.b, l.k, l.st, l.p, s)
      [] l.op = "bn"   -> BatchNorm2d(l.a, s)
      [] l.op = "cbn"  -> ConditionalBatchNorm2d(l.a, l.b, s, hh)
      [] l.op = "up"   -> Upsample(l.k, s)
      [] l.op = "pool" -> AvgPool2d(l.k, l.st, s)
      [] OTHER         -> s        \* relu, tanh: elementwise

\* Running a pipeline of layers on shape s: the output shape, the layers
\* that completed, and how many batch-norm statistics updates and
\* spectral-norm power iterations happened on the way (a batch norm updates
\* its running statistics when it normalises; the spectral-norm hook runs
\* before its layer computes).
RunLayer(l, acc, hh) ==
    LET isBn == l.op \in {"bn", "cbn"} /\ BatchNorm2d(l.a, acc.shape) # ERR
    IN  CHOOSE res \in
            { [shape |-> r,
               ops   |-> IF r = ERR THEN acc.ops ELSE Append(acc.ops, l.op),
               bn    |-> acc.bn + (IF isBn THEN 1 ELSE 0),
               sn    |-> acc.sn + (IF l.sn THEN 1 ELSE 0)] :
                r \in {ApplyLayer(l, acc.shape, hh)} } : TRUE

RECURSIVE RunSeq(_, _, _)
RunSeq(seq, acc, hh) ==
    IF seq = <<>> \/ acc.shape = ERR THEN acc
    ELSE CHOOSE res \in
             {RunSeq(Tail(seq), a, hh) : a \in {RunLayer(Head(seq), acc, hh)}} : TRUE

NoRun(s) == [shape |-> s, ops |-> <<>>, bn |-> 0, sn |-> 0]

Sequential(seq, s, hh) == RunSeq(seq, NoRun(s), hh)

\* out = main(x) + bypass(x): main runs first, bypass only if main returned.
Residual(mainSeq, bypassSeq, s, hh) ==
    CHOOSE res \in
        { CHOOSE sum \in
            { [main |-> m.shape, bypass |-> b.shape, out |-> Broadcast(m.shape, b.shape),
               mainOps |-> m.ops, bypassOps |-> b.ops,
               bn |-> m.bn + b.bn, sn |-> m.sn + b.sn] :
                b \in {IF m.shape = ERR THEN NoRun(ERR) ELSE Sequential(bypassSeq, s, hh)} } : TRUE :
            m \in {Sequential(mainSeq, s, hh)} } : TRUE

\* ------------------------------------------------------------------ generator
\* ResBlockGenerator: the conditional pipeline of forward() ...
GenCondSeq(inC, outC, de) ==
    << CBN(inC, de), ReLU, Up(2), Conv(inC, outC, 3, 1, 1),
       CBN(outC, de), ReLU, Conv(outC, outC, 3, 1, 1) >>

\* ... self.model, the unconditional pipeline ...
GenModelSeq(inC, outC) ==
    << BN(inC), ReLU, Up(2), Conv(inC, outC, 3, 1, 1),
       BN(outC), ReLU, Conv(outC, outC, 3, 1, 1) >>

\* ... and self.bypass.
GenBypassSeq(inC, outC) == << Up(2), Conv(inC, outC, 1, 1, 0) >>

\* Variant: the block always runs the conditional pipeline.
ResBlockGeneratorCondOnly(inC, outC, de, s, hh) ==
    Residual(GenCondSeq(inC, outC, de), GenBypassSeq(inC, outC), s, hh)

ResBlockGenerator(inC, outC, de, s, hh) ==
    IF hh # None
    THEN Residual(GenCondSeq(inC, outC, de), GenBypassSeq(inC, outC), s, hh)
    ELSE Residual(GenModelSeq(inC, outC), GenBypassSeq(inC, outC), s, hh)

\* Channel multipliers of genblock0..genblock3: (16,8), (8,4), (4,2), (2,1).
GenInMult(k)  == CASE k = 0 -> 16 [] k = 1 -> 8 [] k = 2 -> 4 [] OTHER -> 2
\* Variant: genblock3 keeps two times the base width.
GenOutMultWide(k) == CASE k = 0 -> 8 [] k = 1 -> 4 [] OTHER -> 2
GenOutMult(k) == CASE k = 0 -> 8 [] k = 1 -> 4 [] k = 2 -> 2 [] OTHER -> 1

GenBlockFwd(k, s, hh) ==
    ResBlockGenerator(netG.gen_ch * GenInMult(k), netG.gen_ch * GenOutMult(k),
                      netG.dim_embed, s, hh)

\* Variant: the dense layer is sized for 8 * gen_ch channels.
DenseWidth8(g) == 4 * 4 * g * 8

\* self.dense = nn.Linear(nz, 4 * 4 * gen_ch * 16)
DenseWidth(g) == 4 * 4 * g * 16

\* Variant: the final stage ends at the convolution.
GenFinalSeqNoTanh(g) == << BN(g), ReLU, Conv(g, channels, 3, 1, 1) >>

\* self.final = Sequential(BatchNorm2d, ReLU, Conv2d(gen_ch, channels, 3, 1, 1), Tanh)
GenFinalSeq(g) == << BN(g), ReLU, Conv(g, channels, 3, 1, 1), TanhL >>

\* One element of a tensor: a fixed-point number in quarters, or not-a-number.
Elem(v) == [nan |-> FALSE, v |-> v]
NaNElem == [nan |-> TRUE, v |-> 0]

\* tanh rounded to the nearest representable value (quarters): like the
\* floating-point tanh it returns exactly 1.0 once the true value is within
\* half a unit of 1.0, and propagates not-a-number.
TanhAbs(a) == CASE a = 0 -> 0 [] a = 1 -> 1 [] a = 2 -> 2 [] a \in 3..5 -> 3 [] OTHER -> 4
Tanh(e) ==
    IF e.nan THEN NaNElem
    ELSE IF e.v < 0 THEN Elem(0 - TanhAbs(0 - e.v)) ELSE Elem(TanhAbs(e.v))

\* The values the final convolution can produce for one element.
PreActs == {Elem(v) : v \in (0 - MaxPre)..MaxPre} \cup {NaNElem}

\* What is kept of one residual block's forward: the shapes of its two paths
\* and of their sum, the layers each path ran, and the embedding it was given.
Blk(r, hh) == [main |-> r.main, bypass |-> r.bypass, out |-> r.out,
               mainOps |-> r.mainOps, bypassOps |-> r.bypassOps, emb |-> hh]

\* ------------------------------------------------------------------- state
\* The result of get_parameter_number, before it is called.
NotCounted == [net |-> "", Total |-> 0, Trainable |-> 0]

\* Forward calls entered so far.
Calls == mem.calls

\* After construction: both networks are built (with the same dim_embed, as
\* __main__ does), no call has been made.
Init ==
    /\ netG \in [z_dim : 1..MaxNz, dim_embed : 1..MaxEmbed, gen_ch : 1..MaxCh]
    /\ netD \in [dim_embed : {netG.dim_embed}, disc_ch : 1..MaxCh]
    /\ pc = "idle"
    /\ z = None /\ h = None /\ x = None /\ out = None /\ output_h = None
    /\ blocks = <<>>
    /\ ret = None
    /\ val = Elem(0)
    /\ mem = [paramsG |-> 0, paramsD |-> 0, calls |-> 0, fresh |-> FALSE, bn |-> 0, sn |-> 0]
    /\ counted = NotCounted

\* mem is what the two modules hold besides their constructor arguments.
\* paramsG / paramsD: version of the registered parameters (weight, bias,
\* weight_orig) of netG / netD, 0 after construction.  bn: forward calls in
\* which a batch-norm layer updated its running statistics.  sn: forward
\* calls in which a spectral-norm hook ran its power iteration and replaced
\* weight_u / weight_v and the derived weight attribute.  calls: forward
\* calls entered; fresh: the current call has not been counted in bn / sn.
EnterCall(b) == [b EXCEPT !.calls = @ + 1, !.fresh = TRUE]

\* n batch-norm layers normalised a batch (training mode).
BatchNormUpdate(b, n) ==
    IF n > 0 /\ b.fresh THEN [b EXCEPT !.bn = @ + 1, !.fresh = FALSE] ELSE b

\* Variant: the hook normalises the weight parameter in place.
SpectralNormUpdateInPlace(b, n) ==
    IF n > 0 THEN [b EXCEPT !.paramsD = 1, !.sn = @ + 1, !.fresh = FALSE] ELSE b

\* n spectral-norm hooks ran: weight_orig is read, weight_u / weight_v and
\* the weight attribute are written.
SpectralNormUpdate(b, n) ==
    IF n > 0 /\ b.fresh THEN [b EXCEPT !.sn = @ + 1, !.fresh = FALSE] ELSE b

\* Program points of the two forward methods.
GenPcs  == {"g_dense", "g_view", "g_block0", "g_block1", "g_block2", "g_block3", "g_final"}
DiscPcs == {"d_block1", "d_block2", "d_block3", "d_view", "d_proj", "d_score", "d_ret"}

Raised == IF pc \in GenPcs THEN "g_raised" ELSE "d_raised"

\* A step of a forward call: continue at `next` with tensor r, or raise.
Goto(next, r) ==
    /\ out' = r
    /\ pc' = IF r = ERR THEN Raised ELSE next
    /\ ret' = IF r = ERR THEN ERR ELSE ret

\* netG(z, h): the call is entered.
GenCall ==
    /\ pc = "idle" /\ Calls < MaxCalls
    /\ \E n \in 1..MaxBatch : z' = <<n, netG.z_dim>>
    /\ \E hh \in {None} \cup {<<m, e>> : m \in 1..MaxBatch, e \in 1..MaxEmbed} :
         h' = hh
    /\ pc' = "g_dense"
    /\ mem' = EnterCall(mem)
    /\ x' = None /\ out' = None /\ output_h' = None
    /\ blocks' = <<>> /\ ret' = None /\ val' = Elem(0)
    /\ UNCHANGED <<netG, netD, counted>>

\* z = z.view(z.size(0), z.size(1)); out = self.dense(z)
GenDense ==
    /\ pc = "g_dense"
    /\ Goto("g_view", Linear(netG.z_dim, DenseWidth(netG.gen_ch), View2(z)))
    /\ UNCHANGED <<netG, netD, z, h, x, output_h, blocks, val, mem, counted>>

\* out = out.view(-1, self.gen_ch * 16, 4, 4)
GenView ==
    /\ pc = "g_view"
    /\ Goto("g_block0", View(out, <<netG.gen_ch * 16, 4, 4>>))
    /\ UNCHANGED <<netG, netD, z, h, x, output_h, blocks, val, mem, counted>>

\* out = self.genblock<k>(out, h)
GenBlock(k, here, next) ==
    /\ pc = here
    /\ \E r \in {GenBlockFwd(k, out, h)} :
           /\ Goto(next, r.out)
           /\ blocks' = Append(blocks, Blk(r, h))
           /\ mem' = BatchNormUpdate(mem, r.bn)
    /\ UNCHANGED <<netG, netD, z, h, x, output_h, val, counted>>

GenBlock0 == GenBlock(0, "g_block0", "g_block1")
GenBlock1 == GenBlock(1, "g_block1", "g_block2")
GenBlock2 == GenBlock(2, "g_block2", "g_block3")
GenBlock3 == GenBlock(3, "g_block3", "g_final")

\* out = self.final(out); return out
GenFinal ==
    /\ pc = "g_final"
    /\ \E r \in {Sequential(GenFinalSeq(netG.gen_ch), out, h)} :
           /\ out' = r.shape
           /\ ret' = r.shape
           /\ pc' = IF r.shape = ERR THEN Raised ELSE "g_done"
           /\ mem' = BatchNormUpdate(mem, r.bn)
           /\ \E pre \in PreActs :
                val' = IF r.shape = ERR THEN Elem(0)
                       ELSE IF "tanh" \in {r.ops[i] : i \in 1..Len(r.ops)} THEN Tanh(pre)
                       ELSE pre
    /\ UNCHANGED <<netG, netD, z, h, x, output_h, blocks, counted>>

\* -------------------------------------------------------------- discriminator
\* ResBlockDiscriminator.model / .bypass for a given stride argument.
DiscModelSeq(inC, outC, stride) ==
    IF stride = 1
    THEN << ReLU, SNConv(inC, outC, 3, 1, 1), ReLU, SNConv(outC, outC, 3, 1, 1) >>
    ELSE << ReLU, SNConv(inC, outC, 3, 1, 1), ReLU, SNConv(outC, outC, 3, 1, 1),
            Pool(2, stride) >>

DiscBypassSeq(inC, outC, stride) ==
    IF stride # 1
    THEN << SNConv(inC, outC, 1, 1, 0), Pool(2, stride) >>
    ELSE << SNConv(inC, outC, 1, 1, 0) >>

ResBlockDiscriminator(inC, outC, stride, s) ==
    Residual(DiscModelSeq(inC, outC, stride), DiscBypassSeq(inC, outC, stride), s, None)

\* Variant: the first block pools with the stride argument, as the
\* standard block does.
FirstModelSeqStrided(inC, outC, stride) ==
    << SNConv(inC, outC, 3, 1, 1), ReLU, SNConv(outC, outC, 3, 1, 1), Pool(2, stride) >>

\* FirstResBlockDiscriminator.model / .bypass: nn.AvgPool2d(2) has stride 2
\* (the kernel size); the stride argument is not used.
FirstModelSeq(inC, outC, stride) ==
    << SNConv(inC, outC, 3, 1, 1), ReLU, SNConv(outC, outC, 3, 1, 1), Pool(2, 2) >>

FirstBypassSeq(inC, outC, stride) ==
    << Pool(2, 2), SNConv(inC, outC, 1, 1, 0) >>

FirstResBlockDiscriminator(inC, outC, stride, s) ==
    Residual(FirstModelSeq(inC, outC, stride), FirstBypassSeq(inC, outC, stride), s, None)

\* The residual blocks of discblock1, discblock2, discblock3 as constructed
\* by SnganDiscriminator.__init__: kind, in channels, out channels, stride.
BlockSpec(first, inC, outC, stride) ==
    [first |-> first, inC |-> inC, outC |-> outC, stride |-> stride]

DiscBlock1Blocks(d) ==
    << BlockSpec(TRUE, channels, d, 2),
       BlockSpec(FALSE, d, d * 2, 2),
       BlockSpec(FALSE, d * 2, d * 4, 2) >>
DiscBlock2Blocks(d) == << BlockSpec(FALSE, d * 4, d * 8, 2) >>
\* Variant: the last block is built with stride 2.
DiscBlock3BlocksStride2(d) == << BlockSpec(FALSE, d * 8, d * 16, 2) >>
DiscBlock3Blocks(d) == << BlockSpec(FALSE, d * 8, d * 16, 1) >>

BlockFwd(b, s) ==
    IF b.first THEN FirstResBlockDiscriminator(b.inC, b.outC, b.stride, s)
    ELSE ResBlockDiscriminator(b.inC, b.outC, b.stride, s)

\* An nn.Sequential of residual blocks: the output, the per-block records of
\* the blocks that were entered, and the spectral-norm iterations done.
RECURSIVE RunBlocks(_, _)
RunBlocks(bs, acc) ==
    IF bs = <<>> \/ acc.out = ERR THEN acc
    ELSE CHOOSE res \in
             { RunBlocks(Tail(bs), a) :
                 a \in { [out |-> r.out, blks |-> Append(acc.blks, Blk(r, None)),
                          sn |-> acc.sn + r.sn] : r \in {BlockFwd(Head(bs), acc.out)} } } : TRUE

BlockStack(bs, s) == RunBlocks(bs, [out |-> s, blks |-> <<>>, sn |-> 0])

\* Variant: the flattened width after summing over the spatial axes.
FlatWidthPooled(d) == d * 16

FlatWidth(d) == d * 16 * 4 * 4

\* torch.sum(t, 1, keepdim=True)
SumDim1(s) ==
    IF s = ERR \/ Len(s) < 2 THEN ERR ELSE [s EXCEPT ![2] = 1]

\* netD(x, h): the call is entered.
DiscCall ==
    /\ pc = "idle" /\ Calls < MaxCalls
    /\ \E n \in 1..MaxBatch, sz \in ImgSizes : x' = <<n, channels, sz, sz>>
    /\ \E m \in 1..MaxBatch, e \in 1..MaxEmbed : h' = <<m, e>>
    /\ pc' = "d_block1"
    /\ out' = x'
    /\ mem' = EnterCall(mem)
    /\ z' = None /\ output_h' = None /\ blocks' = <<>> /\ ret' = None /\ val' = Elem(0)
    /\ UNCHANGED <<netG, netD, counted>>

\* x = netG(z, y); o = netD(x, y): the generator's result and the same
\* embedding are passed on.
DiscOnGenOutput ==
    /\ pc = "g_done" /\ Calls < MaxCalls
    /\ x' = ret /\ out' = ret
    /\ pc' = "d_block1"
    /\ mem' = EnterCall(mem)
    /\ output_h' = None /\ blocks' = <<>> /\ ret' = None /\ val' = Elem(0)
    /\ UNCHANGED <<netG, netD, z, h, counted>>

\* output = self.discblock<i>(output)
DiscStack(bs, here, next) ==
    /\ pc = here
    /\ \E r \in {BlockStack(bs, out)} :
           /\ Goto(next, r.out)
           /\ blocks' = blocks \o r.blks
           /\ mem' = SpectralNormUpdate(mem, r.sn)
    /\ UNCHANGED <<netG, netD, z, h, x, output_h, val, counted>>

DiscBlock1 == DiscStack(DiscBlock1Blocks(netD.disc_ch), "d_block1", "d_block2")
DiscBlock2 == DiscStack(DiscBlock2Blocks(netD.disc_ch), "d_block2", "d_block3")
\* discblock3 ends with nn.ReLU(), which keeps the shape.
DiscBlock3 == DiscStack(DiscBlock3Blocks(netD.disc_ch), "d_block3", "d_view")

\* output = output.view(-1, self.disc_ch * 16 * 4 * 4)
DiscFlatten ==
    /\ pc = "d_view"
    /\ Goto("d_proj", View(out, <<FlatWidth(netD.disc_ch)>>))
    /\ UNCHANGED <<netG, netD, z, h, x, output_h, blocks, val, mem, counted>>

\* output_h = torch.sum(output * self.linear2(h), 1, keepdim=True)
DiscProject ==
    /\ pc = "d_proj"
    /\ \E r \in {SumDim1(Broadcast(out, Linear(netD.dim_embed, FlatWidth(netD.disc_ch), h)))} :
           /\ output_h' = r
           /\ pc' = IF r = ERR THEN Raised ELSE "d_score"
           /\ ret' = IF r = ERR THEN ERR ELSE ret
    /\ mem' = SpectralNormUpdate(mem, 1)
    /\ UNCHANGED <<netG, netD, z, h, x, out, blocks, val, counted>>

\* output = self.linear1(output) + output_h
DiscScore ==
    /\ pc = "d_score"
    /\ Goto("d_ret", Broadcast(Linear(FlatWidth(netD.disc_ch), 1, out), output_h))
    /\ mem' = SpectralNormUpdate(mem, 1)
    /\ UNCHANGED <<netG, netD, z, h, x, output_h, blocks, val, counted>>

\* return output.view(-1, 1)
DiscReturn ==
    /\ pc = "d_ret"
    /\ \E r \in {View(out, <<1>>)} :
           /\ out' = r /\ ret' = r
           /\ pc' = IF r = ERR THEN Raised ELSE "d_done"
    /\ UNCHANGED <<netG, netD, z, h, x, output_h, blocks, val, mem, counted>>

\* ------------------------------------------------------------ parameter count
\* A parameter tensor of a module: name, number of elements, requires_grad.
P(name, numel) == [name |-> name, numel |-> numel, grad |-> TRUE]

\* A registration: the module `mod` is reachable under `path`; ps are the
\* parameters it owns directly.  The same module can be registered under
\* several paths (conv1 is also model[3], ...).
Reg(path, mod, ps) == [path |-> path, mod |-> mod, ps |-> ps]

ConvParams(inC, outC, k) == << P("weight", inC * outC * k * k), P("bias", outC) >>
SNConvParams(inC, outC, k) == << P("weight_orig", inC * outC * k * k), P("bias", outC) >>
BNParams(nf) == << P("weight", nf), P("bias", nf) >>
EmbedParams(de, nf) == << P("weight", de * nf) >>

\* Registrations made by ResBlockGenerator.__init__ for block b, in
\* attribute order.
ResBlockGeneratorRegs(b, inC, outC, de) ==
    << Reg(<<b, "", "conv1">>, <<b, "conv1">>, ConvParams(inC, outC, 3)),
       Reg(<<b, "", "conv2">>, <<b, "conv2">>, ConvParams(outC, outC, 3)),
       Reg(<<b, "condgn1", "embed_gamma">>, <<b, "condgn1.embed_gamma">>, EmbedParams(de, inC)),
       Reg(<<b, "condgn1", "embed_beta">>, <<b, "condgn1.embed_beta">>, EmbedParams(de, inC)),
       Reg(<<b, "condgn2", "embed_gamma">>, <<b, "condgn2.embed_gamma">>, EmbedParams(de, outC)),
       Reg(<<b, "condgn2", "embed_beta">>, <<b, "condgn2.embed_beta">>, EmbedParams(de, outC)),
       Reg(<<b, "model", "0">>, <<b, "model.0">>, BNParams(inC)),
       Reg(<<b, "model", "3">>, <<b, "conv1">>, ConvParams(inC, outC, 3)),
       Reg(<<b, "model", "4">>, <<b, "model.4">>, BNParams(outC)),
       Reg(<<b, "model", "6">>, <<b, "conv2">>, ConvParams(outC, outC, 3)),
       Reg(<<b, "", "bypass_conv">>, <<b, "bypass_conv">>, ConvParams(inC, outC, 1)),
       Reg(<<b, "bypass", "1">>, <<b, "bypass_conv">>, ConvParams(inC, outC, 1)) >>

\* Registrations of SnganGenerator(nz, dim_embed, gen_ch): dense, final (the
\* Sequential that replaced the convolution under the same attribute), and
\* genblock0..genblock3 (numbered 0..3; the network's own layers are -1).
SnganGeneratorRegs(n) ==
    << Reg(<<-1, "", "dense">>, <<-1, "dense">>,
           << P("weight", n.z_dim * DenseWidth(n.gen_ch)), P("bias", DenseWidth(n.gen_ch)) >>),
       Reg(<<-1, "final", "0">>, <<-1, "final.0">>, BNParams(n.gen_ch)),
       Reg(<<-1, "final", "2">>, <<-1, "final.conv">>, ConvParams(n.gen_ch, channels, 3)) >>
    \o ResBlockGeneratorRegs(0, n.gen_ch * 16, n.gen_ch * 8, n.dim_embed)
    \o ResBlockGeneratorRegs(1, n.gen_ch * 8, n.gen_ch * 4, n.dim_embed)
    \o ResBlockGeneratorRegs(2, n.gen_ch * 4, n.gen_ch * 2, n.dim_embed)
    \o ResBlockGeneratorRegs(3, n.gen_ch * 2, n.gen_ch, n.dim_embed)

\* Registrations made by ResBlockDiscriminator.__init__ (the same for both
\* stride cases: AvgPool2d and ReLU own no parameters).
ResBlockDiscriminatorRegs(b, inC, outC) ==
    << Reg(<<b, "", "conv1">>, <<b, "conv1">>, SNConvParams(inC, outC, 3)),
       Reg(<<b, "", "conv2">>, <<b, "conv2">>, SNConvParams(outC, outC, 3)),
       Reg(<<b, "model", "1">>, <<b, "conv1">>, SNConvParams(inC, outC, 3)),
       Reg(<<b, "model", "3">>, <<b, "conv2">>, SNConvParams(outC, outC, 3)),
       Reg(<<b, "", "bypass_conv">>, <<b, "bypass_conv">>, SNConvParams(inC, outC, 1)),
       Reg(<<b, "bypass", "0">>, <<b, "bypass_conv">>, SNConvParams(inC, outC, 1)) >>

\* Registrations made by FirstResBlockDiscriminator.__init__.
FirstResBlockDiscriminatorRegs(b, inC, outC) ==
    << Reg(<<b, "", "conv1">>, <<b, "conv1">>, SNConvParams(inC, outC, 3)),
       Reg(<<b, "", "conv2">>, <<b, "conv2">>, SNConvParams(outC, outC, 3)),
       Reg(<<b, "", "bypass_conv">>, <<b, "bypass_conv">>, SNConvParams(inC, outC, 1)),
       Reg(<<b, "model", "0">>, <<b, "conv1">>, SNConvParams(inC, outC, 3)),
       Reg(<<b, "model", "2">>, <<b, "conv2">>, SNConvParams(outC, outC, 3)),
       Reg(<<b, "bypass", "1">>, <<b, "bypass_conv">>, SNConvParams(inC, outC, 1)) >>

\* Registrations of SnganDiscriminator(dim_embed, disc_ch): the five residual
\* blocks (numbered 0..4), linear1 and linear2.
SnganDiscriminatorRegs(n) ==
    FirstResBlockDiscriminatorRegs(0, channels, n.disc_ch)
    \o ResBlockDiscriminatorRegs(1, n.disc_ch, n.disc_ch * 2)
    \o ResBlockDiscriminatorRegs(2, n.disc_ch * 2, n.disc_ch * 4)
    \o ResBlockDiscriminatorRegs(3, n.disc_ch * 4, n.disc_ch * 8)
    \o ResBlockDiscriminatorRegs(4, n.disc_ch * 8, n.disc_ch * 16)
    \o << Reg(<<-1, "", "linear1">>, <<-1, "linear1">>,
              << P("weight_orig", FlatWidth(n.disc_ch)), P("bias", 1) >>),
          Reg(<<-1, "", "linear2">>, <<-1, "linear2">>,
              << P("weight_orig", n.dim_embed * FlatWidth(n.disc_ch)) >>) >>

\* net.parameters(): walk the registrations, skip a module already visited,
\* yield each of its parameter tensors.
RECURSIVE Walk(_, _, _)
Walk(regs, seen, acc) ==
    IF regs = <<>> THEN acc
    ELSE LET r == Head(regs)
         IN  IF r.mod \in seen THEN Walk(Tail(regs), seen, acc)
             ELSE CHOOSE res \in
                      { Walk(Tail(regs), sn, a) :
                          sn \in {seen \cup {r.mod}}, a \in {acc \o r.ps} } : TRUE

\* Variant: every registration is yielded, shared or not.
RECURSIVE WalkAll(_, _)
WalkAll(regs, acc) ==
    IF regs = <<>> THEN acc
    ELSE CHOOSE res \in {WalkAll(Tail(regs), a) : a \in {acc \o Head(regs).ps}} : TRUE

ParametersNoMemo(regs) == WalkAll(regs, <<>>)

Parameters(regs) == Walk(regs, {}, <<>>)

RECURSIVE SumNumel(_, _)
SumNumel(ps, onlyGrad) ==
    IF ps = <<>> THEN 0
    ELSE (IF onlyGrad => Head(ps).grad THEN Head(ps).numel ELSE 0)
         + SumNumel(Tail(ps), onlyGrad)

\* get_parameter_number(net)
get_parameter_number(regs) ==
    CHOOSE res \in
        { [Total |-> SumNumel(ps, FALSE), Trainable |-> SumNumel(ps, TRUE)] :
            ps \in {Parameters(regs)} } : TRUE

\* print('G:', get_parameter_number(netG))
CountG ==
    /\ pc = "idle"
    /\ \E r \in {get_parameter_number(SnganGeneratorRegs(netG))} :
         counted' = [net |-> "G", Total |-> r.Total, Trainable |-> r.Trainable]
    /\ pc' = "counted"
    /\ UNCHANGED <<netG, netD, z, h, x, out, output_h, blocks, ret, val, mem>>

\* print('D:', get_parameter_number(netD))
CountD ==
    /\ pc = "idle"
    /\ \E r \in {get_parameter_number(SnganDiscriminatorRegs(netD))} :
         counted' = [net |-> "D", Total |-> r.Total, Trainable |-> r.Trainable]
    /\ pc' = "counted"
    /\ UNCHANGED <<netG, netD, z, h, x, out, output_h, blocks, ret, val, mem>>

\* The caller drops the result (or handles the exception).
Finish ==
    /\ pc \in {"g_done", "d_done", "g_raised", "d_raised", "counted"}
    /\ pc' = "idle"
    /\ z' = None /\ h' = None /\ x' = None /\ out' = None /\ output_h' = None
    /\ blocks' = <<>> /\ ret' = None /\ val' = Elem(0)
    /\ counted' = NotCounted
    /\ UNCHANGED <<netG, netD, mem>>

Next ==
    \/ GenCall \/ GenDense \/ GenView
    \/ GenBlock0 \/ GenBlock1 \/ GenBlock2 \/ GenBlock3 \/ GenFinal
    \/ DiscCall \/ DiscOnGenOutput \/ DiscBlock1 \/ DiscBlock2 \/ DiscBlock3
    \/ DiscFlatten \/ DiscProject \/ DiscScore \/ DiscReturn
    \/ CountG \/ CountD
    \/ Finish

Spec == Init /\ [][Next]_vars

\* ====================================================================== claims
RECURSIVE Pow2(_)
Pow2(i) == IF i = 0 THEN 1 ELSE 2 * Pow2(i - 1)

InGen  == pc \in GenPcs \cup {"g_done", "g_raised"}
InDisc == pc \in DiscPcs \cup {"d_done", "d_raised"}

\* C1: a generator call with z of shape (N, nz) and an embedding of shape
\* (N, dim_embed) never raises, has N rows after the reshape to
\* (N, 16*gen_ch, 4, 4) and after every block, and returns (N, 3, 64, 64).
C1_GeneratorShape ==
    (InGen /\ h = <<z[1], netG.dim_embed>>) =>
        /\ pc # "g_raised"
        /\ pc = "g_block0" => out = <<z[1], 16 * netG.gen_ch, 4, 4>>
        /\ \A i \in 1..Len(blocks) : blocks[i].out[1] = z[1]
        /\ pc = "g_final" => Len(blocks) = 4 /\ out[1] = z[1]
        /\ pc = "g_done" => ret = <<z[1], 3, 64, 64>>

C1_Witness ==
    /\ pc = "g_done" /\ h = <<z[1], netG.dim_embed>>
    /\ z[1] = 3 /\ netG.gen_ch = 2 /\ ret = <<3, 3, 64, 64>>

\* C2: a discriminator call with x of shape (N, 3, 64, 64) and an embedding
\* of shape (N, dim_embed) never raises, flattens to exactly N rows of width
\* disc_ch*16*4*4 and returns (N, 1); so does the call that is fed the
\* generator's output for N samples and the same N embeddings.
C2_DiscriminatorShape ==
    /\ (InDisc /\ x = <<x[1], 3, 64, 64>> /\ h = <<x[1], netD.dim_embed>>) =>
          /\ pc # "d_raised"
          /\ pc = "d_proj" => out = <<x[1], netD.disc_ch * 16 * 4 * 4>>
          /\ pc = "d_done" => ret = <<x[1], 1>>
    /\ (InDisc /\ z # None /\ h = <<z[1], netG.dim_embed>>) =>
          /\ x = <<z[1], 3, 64, 64>>
          /\ pc # "d_raised"
          /\ pc = "d_done" => ret = <<z[1], 1>>

C2_Witness ==
    /\ pc = "d_done" /\ z # None /\ z[1] = 2 /\ h = <<2, netG.dim_embed>>
    /\ ret = <<2, 1>>

\* C3: with h = None every generator block that has run took the
\* unconditional pipeline (plain batch norm) plus the bypass, the call never
\* raises and it returns (N, 3, 64, 64).
C3_UnconditionalPath ==
    (InGen /\ h = None) =>
        /\ pc # "g_raised"
        /\ \A i \in 1..Len(blocks) :
             /\ blocks[i].mainOps = <<"bn", "relu", "up", "conv", "bn", "relu", "conv">>
             /\ blocks[i].bypassOps = <<"up", "conv">>
        /\ pc = "g_done" => Len(blocks) = 4 /\ ret = <<z[1], 3, 64, 64>>

C3_Witness ==
    pc = "g_done" /\ h = None /\ z[1] = 2 /\ Len(blocks) = 4

\* The input mismatches C4 names.
GenMismatch  == h # None /\ (h[2] # netG.dim_embed \/ h[1] # z[1])
DiscMismatch == h = None \/ h[2] # netD.dim_embed \/ h[1] # x[1] \/ x[3] # 64 \/ x[4] # 64

\* C4 as stated: no forward call with mismatched input shapes returns.
C4_MismatchAlwaysRaises ==
    /\ pc = "g_done" => ~GenMismatch
    /\ pc = "d_done" => ~DiscMismatch

\* C4, amended: a call returns only if the embedding's feature dimension is
\* dim_embed and its batch size equals the number of feature rows it is
\* combined with or one of the two is 1 (broadcasting); for the
\* discriminator the rows are R = N * floor(S/16)^2 / 16, which must be whole
\* (R = N for sides 64..79).
C4_MismatchRaisesUnlessBroadcast ==
    /\ (pc = "g_done" /\ h # None) =>
          /\ h[2] = netG.dim_embed
          /\ h[1] = z[1] \/ h[1] = 1 \/ z[1] = 1
    /\ pc = "d_done" =>
          /\ h # None
          /\ h[2] = netD.dim_embed
          /\ (x[1] * (x[3] \div 16) * (x[4] \div 16)) % 16 = 0
          /\ LET rows == (x[1] * (x[3] \div 16) * (x[4] \div 16)) \div 16
             IN  h[1] = rows \/ h[1] = 1 \/ rows = 1

C4_Witness ==
    pc = "g_raised" /\ h # None /\ h[1] = z[1] /\ h[2] # netG.dim_embed

\* Parameter totals worked out layer by layer, each layer once.
GenBlockCount(i, o, de) ==
    (9 * i * o + o) + (9 * o * o + o) + 2 * de * i + 2 * de * o
    + 2 * i + 2 * o + (i * o + o)

GenCount(n) ==
    (n.z_dim + 1) * 256 * n.gen_ch + 2 * n.gen_ch + (27 * n.gen_ch + 3)
    + GenBlockCount(16 * n.gen_ch, 8 * n.gen_ch, n.dim_embed)
    + GenBlockCount(8 * n.gen_ch, 4 * n.gen_ch, n.dim_embed)
    + GenBlockCount(4 * n.gen_ch, 2 * n.gen_ch, n.dim_embed)
    + GenBlockCount(2 * n.gen_ch, n.gen_ch, n.dim_embed)

DiscBlockCount(i, o) == (9 * i * o + o) + (9 * o * o + o) + (i * o + o)

DiscCount(n) ==
    DiscBlockCount(3, n.disc_ch)
    + DiscBlockCount(n.disc_ch, 2 * n.disc_ch)
    + DiscBlockCount(2 * n.disc_ch, 4 * n.disc_ch)
    + DiscBlockCount(4 * n.disc_ch, 8 * n.disc_ch)
    + DiscBlockCount(8 * n.disc_ch, 16 * n.disc_ch)
    + (256 * n.disc_ch + 1) + n.dim_embed * 256 * n.disc_ch

RECURSIVE RegisteredNumel(_)
RegisteredNumel(regs) ==
    IF regs = <<>> THEN 0
    ELSE SumNumel(Head(regs).ps, FALSE) + RegisteredNumel(Tail(regs))

\* C5: the count reported for a network is the fixed function of its
\* constructor arguments obtained by counting every layer once; it is less
\* than the sum over all registrations (shared layers are not counted
\* twice), and the trainable count equals the total.
C5_ParameterCount ==
    pc = "counted" =>
        /\ counted.Trainable = counted.Total
        /\ counted.net = "G" =>
              /\ counted.Total = GenCount(netG)
              /\ counted.Total < RegisteredNumel(SnganGeneratorRegs(netG))
        /\ counted.net = "D" =>
              /\ counted.Total = DiscCount(netD)
              /\ counted.Total < RegisteredNumel(SnganDiscriminatorRegs(netD))

C5_Witness ==
    pc = "counted" /\ counted.net = "G" /\ netG.gen_ch = 2 /\ counted.Total > 0

\* C6 as stated: every (numeric) element of the generator's result lies
\* strictly between -1 and 1 (4 quarters).
C6_OpenRange ==
    (pc = "g_done" /\ ~val.nan) => (val.v > -4 /\ val.v < 4)

\* C6, amended: every numeric element of the generator's result lies in the
\* closed range [-1, 1]; the bounds themselves are attained.
C6_ClosedRange ==
    (pc = "g_done" /\ ~val.nan) => (val.v >= -4 /\ val.v <= 4)

C6_Witness ==
    pc = "g_done" /\ val = Elem(4)

\* C7: in a generator call with a well-shaped embedding (or none) the map is
\* (N, 16*gen_ch, 4, 4) after the reshape, and after block k (the i-th block,
\* i = k+1) the main path, the bypass path and their sum all have resolution
\* 4*2^i and gen_ch*16/2^i channels; each block got the call's embedding.
C7_GeneratorSchedule ==
    (InGen /\ (h = None \/ h = <<z[1], netG.dim_embed>>)) =>
        /\ pc = "g_block0" => out = <<z[1], 16 * netG.gen_ch, 4, 4>>
        /\ pc \in {"g_final", "g_done"} => Len(blocks) = 4
        /\ \A i \in 1..Len(blocks) :
             LET shape == <<z[1], (netG.gen_ch * 16) \div Pow2(i), 4 * Pow2(i), 4 * Pow2(i)>>
             IN  /\ blocks[i].main = shape
                 /\ blocks[i].bypass = shape
                 /\ blocks[i].out = shape
                 /\ blocks[i].emb = h

C7_Witness ==
    /\ pc = "g_final" /\ h # None /\ Len(blocks) = 4
    /\ blocks[4].main = <<2, netG.gen_ch, 64, 64>> /\ blocks[1].bypass[3] = 8

\* C8: in a discriminator call on (N, 3, 64, 64) the i-th of the four
\* downsampling blocks leaves resolution 64/2^i with disc_ch*2^(i-1)
\* channels on the main path, the bypass path and their sum; the fifth block
\* keeps 4x4 with 16*disc_ch channels, so the map that is flattened has
\* disc_ch*16*4*4 elements per sample.
C8_DiscriminatorSchedule ==
    (InDisc /\ x = <<x[1], 3, 64, 64>>) =>
        /\ pc \in {"d_view", "d_proj", "d_score", "d_ret", "d_done"} => Len(blocks) = 5
        /\ pc = "d_view" => Numel(out) = x[1] * (netD.disc_ch * 16 * 4 * 4)
        /\ \A i \in 1..Len(blocks) :
             LET shape == IF i <= 4
                          THEN <<x[1], netD.disc_ch * Pow2(i - 1), 64 \div Pow2(i), 64 \div Pow2(i)>>
                          ELSE <<x[1], netD.disc_ch * 16, 4, 4>>
             IN  /\ blocks[i].main = shape
                 /\ blocks[i].bypass = shape
                 /\ blocks[i].out = shape

C8_Witness ==
    /\ pc = "d_view" /\ x = <<2, 3, 64, 64>> /\ netD.disc_ch = 2
    /\ blocks[4].out = <<2, 16, 4, 4>> /\ blocks[5].out = <<2, 32, 4, 4>>

\* C9: whatever stride FirstResBlockDiscriminator is built with, on the
\* call's image its main path runs convolve, activate, convolve, pool (no
\* activation first), its bypass path runs pool, convolve, and both paths
\* give (N, disc_ch, S/2, S/2); the block the call ran is that block.
C9_FirstBlock ==
    pc = "d_block2" =>
        \A st \in 1..MaxStride :
            LET r == FirstResBlockDiscriminator(channels, netD.disc_ch, st, x)
                half == <<x[1], netD.disc_ch, x[3] \div 2, x[4] \div 2>>
            IN  /\ r.mainOps = <<"conv", "relu", "conv", "pool">>
                /\ r.bypassOps = <<"pool", "conv">>
                /\ r.main = half /\ r.bypass = half /\ r.out = half
                /\ blocks[1] = Blk(r, None)

C9_Witness ==
    /\ pc = "d_block2" /\ x = <<1, 3, 64, 64>>
    /\ blocks[1].mainOps[1] = "conv" /\ blocks[1].main = <<1, netD.disc_ch, 32, 32>>

\* C10: whatever forward calls were made, the parameters of both networks
\* still have the version they had after construction.
C10_ParametersUntouched ==
    mem.paramsG = 0 /\ mem.paramsD = 0

C10_Witness ==
    pc = "idle" /\ mem.calls = 2 /\ mem.bn = 1 /\ mem.sn = 1


====
